---------------------------- MODULE Spec2Model ----------------------------
(***************************************************************************)
(* Verification model of the spatial interpolation engine of h2-viewer:    *)
(* the simple-kriging predictor of src/src/kriging.ts (class Kriging).     *)
(*                                                                         *)
(* Numbers.  A JavaScript number is modelled as a pair <<n, d>> of         *)
(* integers: d > 0 is the rational n/d in lowest terms, <<1, 0>> is        *)
(* +Infinity, <<-1, 0>> is -Infinity and <<0, 0>> is NaN.  The arithmetic  *)
(* operators follow IEEE 754 on the special values and are exact on the    *)
(* rationals (the model has no rounding and no signed zero).               *)
(***************************************************************************)
EXTENDS Integers, Sequences, FiniteSets, TLC

----------------------------------------------------------------------------
(* JavaScript number arithmetic                                            *)

IntAbs(i) == IF i < 0 THEN -i ELSE i

Sgn(i) == IF i > 0 THEN 1 ELSE IF i < 0 THEN -1 ELSE 0

RECURSIVE Gcd(_, _)
Gcd(a, b) == IF b = 0 THEN a ELSE Gcd(b, a % b)

\* the number n/d (any integers n, d) in normal form
Norm(n, d) ==
    IF d = 0 THEN <<Sgn(n), 0>>
    ELSE LET g == Gcd(IntAbs(n), IntAbs(d))
             s == IF d < 0 THEN -1 ELSE 1
         IN  <<(s * n) \div g, IntAbs(d) \div g>>

NaN == <<0, 0>>
PosInf == <<1, 0>>
NegInf == <<-1, 0>>
Zero == <<0, 1>>
One == <<1, 1>>
Num(i) == <<i, 1>>
Rat(n, d) == Norm(n, d)

IsNaN(x) == x = NaN
IsFinite(x) == x[2] # 0

Neg(x) == <<-x[1], x[2]>>

Add(x, y) ==
    IF IsNaN(x) \/ IsNaN(y) THEN NaN
    ELSE IF x[2] = 0 /\ y[2] = 0 THEN (IF x = y THEN x ELSE NaN)
    ELSE IF x[2] = 0 THEN x
    ELSE IF y[2] = 0 THEN y
    ELSE LET g == Gcd(x[2], y[2])
         IN  Norm(x[1] * (y[2] \div g) + y[1] * (x[2] \div g),
                  (x[2] \div g) * y[2])

Sub(x, y) == Add(x, Neg(y))

\* the factors are cancelled crosswise first, to keep the products small
Mul(x, y) ==
    LET g == Gcd(IntAbs(x[1]), y[2])
        h == Gcd(IntAbs(y[1]), x[2])
        a == IF g = 0 THEN 1 ELSE g
        b == IF h = 0 THEN 1 ELSE h
    IN  Norm((x[1] \div a) * (y[1] \div b), (x[2] \div b) * (y[2] \div a))

\* x / y is x times the reciprocal <<y[2], y[1]>>, its sign moved upstairs
Div(x, y) ==
    IF y[1] < 0 THEN Mul(x, <<-y[2], -y[1]>>) ELSE Mul(x, <<y[2], y[1]>>)

\* x < y, false when either is NaN
Lt(x, y) ==
    /\ ~IsNaN(x)
    /\ ~IsNaN(y)
    /\ IF x[2] = 0 /\ y[2] = 0 THEN x[1] < y[1]
       ELSE LET g == Gcd(x[2], y[2])
                h == IF g = 0 THEN 1 ELSE g
            IN  x[1] * (y[2] \div h) < y[1] * (x[2] \div h)

Gt(x, y) == Lt(y, x)
Ge(x, y) == ~IsNaN(x) /\ ~IsNaN(y) /\ ~Lt(x, y)
Le(x, y) == Ge(y, x)

MathAbs(x) == <<IntAbs(x[1]), x[2]>>

\* Math.max(a, b): NaN when either argument is NaN
MathMax(a, b) ==
    IF IsNaN(a) \/ IsNaN(b) THEN NaN
    ELSE IF Lt(a, b) THEN b ELSE a

\* Math.max(...list): -Infinity for the empty list
RECURSIVE MathMaxOf(_)
MathMaxOf(s) ==
    IF s = <<>> THEN NegInf
    ELSE MathMax(Head(s), MathMaxOf(Tail(s)))

\* Math.pow(x, e) for the integer exponents the program uses (e >= 1)
RECURSIVE MathPow(_, _)
MathPow(x, e) == IF e = 1 THEN x ELSE Mul(x, MathPow(x, e - 1))

IsSquare(i) == \E r \in 0..i : r * r = i
IntSqrt(i) == CHOOSE r \in 0..i : r * r = i

\* Math.sqrt on the squares of rationals (all the distances of the model)
MathSqrt(x) ==
    IF IsNaN(x) \/ x[1] < 0 THEN NaN
    ELSE IF x[2] = 0 THEN PosInf
    ELSE <<IntSqrt(x[1]), IntSqrt(x[2])>>

\* the grid on which Math.exp's result is rounded: multiples of 1/ExpGrid
ExpGrid == 8

\* x >= 0 finite, rounded to the nearest multiple of 1/ExpGrid
RoundGrid(x) ==
    Norm((2 * x[1] * ExpGrid + x[2]) \div (2 * x[2]), ExpGrid)

\* Math.exp.  The double it returns is a rational approximation of e^x; the
\* model takes the second-order approximation 1 + x + x^2/2 for x >= 0 and
\* its reciprocal for x < 0, rounded to the grid: exp(0) = 1, exp is
\* monotone, exp(-Infinity) = 0 and a very negative argument underflows to 0.
MathExp(x) ==
    IF IsNaN(x) THEN NaN
    ELSE IF x = PosInf THEN PosInf
    ELSE IF x = NegInf THEN Zero
    ELSE LET y == MathAbs(x)
             t == Add(One, Add(y, Div(Mul(y, y), Num(2))))
         IN  IF x[1] >= 0 THEN RoundGrid(t) ELSE RoundGrid(Div(One, t))


----------------------------------------------------------------------------
(* Inputs of the model                                                     *)

\* longest sample list handed to the constructor
MaxSamples == 3

\* null / undefined / absent, for a scalar; and for a matrix ([] is <<>>)
Null == <<>>
NullMatrix == << <<>> >>

Sample(lon, lat, h2) == [lon |-> lon, lat |-> lat, h2 |-> h2]

\* DataPoint values: three corners of a 3 x 4 rectangle (their distances are
\* 3, 4 and 5), two of them with the same h2, and two non-finite entries.
\* A list may repeat an entry: coincident samples.
SamplePool ==
    { Sample(Num(0), Num(0), Num(1)),
      Sample(Num(3), Num(0), Num(3)),
      Sample(Num(0), Num(4), Num(3)),
      Sample(Num(3), Num(4), NaN),
      Sample(PosInf, Num(0), Num(1)) }

SampleLists == UNION { [1..n -> SamplePool] : n \in 0..MaxSamples }

\* KrigingParams: model "" is an absent selector, Null an absent number.
\* Every model meets every sill and range; the nugget varies under the
\* default model.
ModelArgs == {"", "gaussian", "spherical", "cubic"}
NuggetArgs == {Null, Zero, Num(2)}
SillArgs == {Null, Num(2)}
RangeArgs == {Null, Zero, Num(4)}

ParamSets ==
    [model : ModelArgs, nugget : {Null}, sill : SillArgs, range : RangeArgs]
    \cup [model : {""}, nugget : NuggetArgs, sill : SillArgs, range : RangeArgs]

\* query locations: a corner that holds samples and the opposite corner
QueryPoints == {<<Num(0), Num(0)>>, <<Num(3), Num(4)>>}

----------------------------------------------------------------------------
(* State of one Kriging engine                                             *)

VARIABLES
    argData,    \* constructor argument data
    argParams,  \* constructor argument params
    pc,         \* position of the constructor
    data, model, nugget, sill, range,   \* private fields
    K, M,       \* covariance matrix and its inverse, NullMatrix when null
    augmented,  \* invertMatrix: the augmented matrix [A | I]
    i,          \* invertMatrix: the column of the elimination loop (1-based)
    warnings,   \* number of console.warn calls made
    last        \* outcome of the last public method call

\* State of one call of interpolateIDW
VARIABLES
    idwCall,    \* the arguments lon, lat, points, power, minDistance
    idwPc,      \* "idle", "loop" or "done"
    idwIndex,   \* the point the for-of loop is at (1-based)
    weightSum, valueSum,    \* the two accumulators
    returned    \* the value returned, Null before the return

idwVars == <<idwCall, idwPc, idwIndex, weightSum, valueSum, returned>>

\* State of the component App of src/src/App.js
VARIABLES
    csvData,        \* the lines of h2_frantz.csv, each one its three parsed fields
    variogramModel, \* useState('exponential')
    loads,          \* the calls of loadData: the variogramModel each one
                    \* closed over and the await it is at
    appData,        \* useState([]): data
    minValue, maxValue,     \* useState(0)
    error,          \* useState(null)
    krigingModel,   \* useState(null): the Kriging instance
    krigingParams   \* useState(null)

appVars == <<csvData, variogramModel, loads, appData, minValue, maxValue,
             error, krigingModel, krigingParams>>

\* State of the component App of src/unnamed/part_000 (the map)
VARIABLES
    mapCsv,         \* the lines of h2_frantz.csv
    mapLoad,        \* the await loadH2Data is at
    h2Data,         \* useState([])
    bounds,         \* useState(null)
    algorithm,      \* useState('kriging')
    opacity,        \* useState(0.6)
    mapVariogramModel,  \* useState('exponential'): variogramModel
    heatmapImageUrl,    \* useState(null)
    heatmapCall,    \* the parameters generateHeatmap ran with at its last call
    effectThrew     \* an effect of the component has thrown

mapVars == <<mapCsv, mapLoad, h2Data, bounds, algorithm, opacity,
             mapVariogramModel, heatmapImageUrl, heatmapCall, effectThrew>>

uiVars == <<appVars, mapVars>>

vars == <<argData, argParams, pc, data, model, nugget, sill, range, K, M,
          augmented, i, warnings, last, idwVars, uiVars>>

\* no call of interpolateIDW is in progress
IdwIdle ==
    /\ idwCall = Null
    /\ idwPc = "idle"
    /\ idwIndex = 0
    /\ weightSum = Zero
    /\ valueSum = Zero
    /\ returned = Null

\* the component App is not mounted
AppIdle ==
    /\ csvData = <<>>
    /\ variogramModel = "exponential"
    /\ loads = <<>>
    /\ appData = <<>>
    /\ minValue = Zero
    /\ maxValue = Zero
    /\ error = Null
    /\ krigingModel = Null
    /\ krigingParams = Null

\* the map component is not mounted
MapIdle ==
    /\ mapCsv = <<>>
    /\ mapLoad = "unmounted"
    /\ h2Data = <<>>
    /\ bounds = Null
    /\ algorithm = "kriging"
    /\ opacity = Rat(3, 5)
    /\ mapVariogramModel = "exponential"
    /\ heatmapImageUrl = Null
    /\ heatmapCall = Null
    /\ effectThrew = FALSE

UiIdle == AppIdle /\ MapIdle

fields == <<data, model, nugget, sill, range, K, M>>

\* 1e-10 is 1 / 10^TolDigits
TolDigits == 10

\* n/d < 1 / 10^e for n >= 0, d > 0
RECURSIVE LtPow10(_, _, _)
LtPow10(n, d, e) ==
    IF e = 0 THEN n < d ELSE LtPow10(n, (d + 9) \div 10, e - 1)

\* x < 1e-10, for x = Math.abs(pivot)
BelowTolerance(x) == IsFinite(x) /\ LtPow10(x[1], x[2], TolDigits)

----------------------------------------------------------------------------
(* Kriging: private methods                                                *)

\* the array <<F(1), ..., F(n)>>, every element computed once
RECURSIVE Array(_, _)
Array(F(_), n) == IF n = 0 THEN <<>> ELSE Append(Array(F, n - 1), F(n))

distance(p1, p2) ==
    MathSqrt(Add(MathPow(Sub(p1.lon, p2.lon), 2),
                 MathPow(Sub(p1.lat, p2.lat), 2)))

\* the exponential formula for every selector, without the test h === 0
variogramWithoutZeroTest(m, ng, sl, rg, h) ==
    Add(ng, Mul(Sub(sl, ng),
                Sub(One, MathExp(Div(Mul(Num(-3), h), rg)))))

\* a switch whose default branch is the gaussian formula
variogramDefaultGaussian(m, ng, sl, rg, h) ==
    IF h = Zero THEN Zero
    ELSE IF m \in {"exponential", "spherical"}
    THEN variogramWithoutZeroTest(m, ng, sl, rg, h)
    ELSE Add(ng, Mul(Sub(sl, ng),
                     Sub(One, MathExp(Mul(Num(-3), MathPow(Div(h, rg), 2))))))

\* the variogram of parameters (m, ng, sl, rg) at separation h
variogramOf(m, ng, sl, rg, h) ==
    IF h = Zero THEN Zero
    ELSE LET c == Sub(sl, ng)
             expo == Add(ng, Mul(c, Sub(One,
                        MathExp(Div(Mul(Num(-3), h), rg)))))
         IN  CASE m = "exponential" -> expo
               [] m = "gaussian" ->
                    Add(ng, Mul(c, Sub(One,
                        MathExp(Mul(Num(-3), MathPow(Div(h, rg), 2))))))
               [] m = "spherical" ->
                    IF Ge(h, rg) THEN sl
                    ELSE Add(ng, Mul(c,
                            Sub(Div(Mul(Rat(3, 2), h), rg),
                                Mul(Rat(1, 2), MathPow(Div(h, rg), 3)))))
               [] OTHER -> expo

variogram(h) == variogramOf(model, nugget, sill, range, h)

\* values.reduce((a, b) => a + b, 0) and its like: left fold of Add
RECURSIVE SumSeq(_)
SumSeq(s) ==
    IF s = <<>> THEN Zero
    ELSE Add(SumSeq(SubSeq(s, 1, Len(s) - 1)), s[Len(s)])

\* the pairwise distances d(data[a], data[b]), a < b, in push order
pairDistances(d) ==
    LET n == Len(d)
        RECURSIVE from(_, _)
        from(a, b) ==
            IF a > n THEN <<>>
            ELSE IF b > n THEN from(a + 1, a + 2)
            ELSE <<distance(d[a], d[b])>> \o from(a, b + 1)
    IN  from(1, 2)

\* a Fitter that uses the sample variance (n - 1) instead of the population
\* variance
fitVariogramSampleVariance(d, ng) ==
    LET n == Len(d)
        values == Array(LAMBDA a : d[a].h2, n)
        mean == Div(SumSeq(values), Num(n))
        variance == Div(SumSeq(Array(LAMBDA a : MathPow(Sub(values[a], mean), 2),
                                     n)),
                        Num(n - 1))
        newSill == Mul(variance, Rat(6, 5))
    IN  <<newSill, Mul(MathMaxOf(pairDistances(d)), Rat(3, 10)),
          IF ng = Zero THEN Mul(newSill, Rat(1, 20)) ELSE ng>>

\* fitVariogram: the <<sill, range, nugget>> it assigns
fitVariogram(d, ng) ==
    LET n == Len(d)
        values == Array(LAMBDA a : d[a].h2, n)
        mean == Div(SumSeq(values), Num(n))
        variance == Div(SumSeq(Array(LAMBDA a : MathPow(Sub(values[a], mean), 2), n)),
                        Num(n))
        newSill == Mul(variance, Rat(6, 5))
        maxDist == MathMaxOf(pairDistances(d))
        newRange == Mul(maxDist, Rat(3, 10))
        newNugget == IF ng = Zero THEN Mul(newSill, Rat(1, 20)) ELSE ng
    IN  <<newSill, newRange, newNugget>>

\* prepareMatrices: the covariance matrix K
covariance(d) ==
    Array(LAMBDA a :
            Array(LAMBDA b : Sub(sill, variogram(distance(d[a], d[b]))), Len(d)),
          Len(d))


\* invertMatrix: the augmented copy [A | I]
augment(matrix) ==
    LET n == Len(matrix)
    IN  Array(LAMBDA a :
                Array(LAMBDA b : IF b <= n THEN matrix[a][b]
                                 ELSE IF b - n = a THEN One ELSE Zero,
                      2 * n),
              n)

\* invertMatrix: the pivot search of column c, from row k with maxRow so far
RECURSIVE findMaxRow(_, _, _, _)
findMaxRow(aug, c, k, maxRow) ==
    IF k > Len(aug) THEN maxRow
    ELSE findMaxRow(aug, c, k + 1,
            IF Gt(MathAbs(aug[k][c]), MathAbs(aug[maxRow][c]))
            THEN k ELSE maxRow)

\* no search for the pivot: the row of the diagonal entry
pivotRowOnDiagonal(aug, c) == c

pivotRow(aug, c) == findMaxRow(aug, c, c + 1, c)

swapRows(aug, a, b) == [aug EXCEPT ![a] = aug[b], ![b] = aug[a]]

\* Math.abs(pivot) < 1e-10
isSingularPivot(pivot) == BelowTolerance(MathAbs(pivot))

\* invertMatrix: divide the pivot row c by the pivot
normalise(aug, c) ==
    [aug EXCEPT ![c] = Array(LAMBDA j : Div(aug[c][j], aug[c][c]), Len(aug[c]))]

\* a forward elimination: only the rows below the pivot row are reduced
eliminateBelow(aug, c) ==
    Array(LAMBDA k :
            IF k <= c THEN aug[k]
            ELSE Array(LAMBDA j : Sub(aug[k][j], Mul(aug[k][c], aug[c][j])),
                       Len(aug[k])),
          Len(aug))

\* invertMatrix: subtract factor times the pivot row from every other row
eliminate(aug, c) ==
    Array(LAMBDA k :
            IF k = c THEN aug[c]
            ELSE Array(LAMBDA j : Sub(aug[k][j], Mul(aug[k][c], aug[c][j])),
                       Len(aug[k])),
          Len(aug))

\* a column step without the test of the pivot
columnStepWithoutSkip(aug, c) ==
    eliminate(normalise(swapRows(aug, c, pivotRow(aug, c)), c), c)

\* invertMatrix: one iteration of the loop over the columns
columnStep(aug, c) ==
    LET swapped == swapRows(aug, c, pivotRow(aug, c))
    IN  IF isSingularPivot(swapped[c][c]) THEN swapped
        ELSE eliminate(normalise(swapped, c), c)

\* invertMatrix: the right half of the augmented matrix
extractInverse(aug) ==
    Array(LAMBDA a : SubSeq(aug[a], Len(aug) + 1, 2 * Len(aug)), Len(aug))

----------------------------------------------------------------------------
(* Kriging: public methods                                                 *)

NoCall == [op |-> "none", lon |-> Null, lat |-> Null, threw |-> "",
           value |-> Null, params |-> Null]

\* the guard  if (!this.M)  of interpolate and variance
matrixNotInitialized == M = NullMatrix

\* the covariance vector between the query and the samples
covarianceVector(lon, lat) ==
    Array(LAMBDA a :
            Sub(sill, variogram(distance([lon |-> lon, lat |-> lat], data[a]))),
          Len(data))

\* the weights M * k
krigingWeights(k) ==
    Array(LAMBDA a : SumSeq(Array(LAMBDA b : Mul(M[a][b], k[b]), Len(data))),
          Len(data))

\* value += weights[a] * data[a].h2
weightedSum(w) == SumSeq(Array(LAMBDA a : Mul(w[a], data[a].h2), Len(data)))

interpolateValue(lon, lat) ==
    weightedSum(krigingWeights(covarianceVector(lon, lat)))

\* variance -= weights[a] * k[a], for a = 1..upto, starting from sill
RECURSIVE subtractProducts(_, _, _)
subtractProducts(w, k, upto) ==
    IF upto = 0 THEN sill
    ELSE Sub(subtractProducts(w, k, upto - 1), Mul(w[upto], k[upto]))

\* Math.max(0, variance)
clampedVariance(k) ==
    MathMax(Zero, subtractProducts(krigingWeights(k), k, Len(data)))

varianceValue(lon, lat) == clampedVariance(covarianceVector(lon, lat))

resolvedParameters ==
    [model |-> model, nugget |-> nugget, sill |-> sill, range |-> range]

----------------------------------------------------------------------------
(* Faulty variants of the methods, which the properties have to tell from  *)
(* the code                                                                *)

\* interpolate without the guard: with M null, this.M[i][j] is a TypeError
\* as soon as there is a sample, and the sum over no sample is 0
InterpolateUnguarded(lon, lat) ==
    /\ last' = IF M = NullMatrix /\ Len(data) > 0
               THEN [NoCall EXCEPT !.op = "interpolate", !.lon = lon, !.lat = lat,
                                   !.threw = "TypeError"]
               ELSE IF M = NullMatrix
               THEN [NoCall EXCEPT !.op = "interpolate", !.lon = lon, !.lat = lat,
                                   !.value = Zero]
               ELSE [NoCall EXCEPT !.op = "interpolate", !.lon = lon, !.lat = lat,
                                   !.value = interpolateValue(lon, lat)]
    /\ UNCHANGED idwVars
    /\ UNCHANGED uiVars
    /\ UNCHANGED <<argData, argParams, pc, data, model, nugget, sill, range,
                   K, M, augmented, i, warnings>>

\* variance accumulating in this.sill instead of a local variable
VarianceInPlace(lon, lat) ==
    /\ ~matrixNotInitialized
    /\ sill' = varianceValue(lon, lat)
    /\ last' = [NoCall EXCEPT !.op = "variance", !.lon = lon, !.lat = lat,
                              !.value = varianceValue(lon, lat)]
    /\ UNCHANGED idwVars
    /\ UNCHANGED uiVars
    /\ UNCHANGED <<argData, argParams, pc, data, model, nugget, range,
                   K, M, augmented, i, warnings>>

----------------------------------------------------------------------------
(* Actions                                                                 *)

Init ==
    /\ argData \in SampleLists
    /\ argParams \in ParamSets
    /\ pc = "start"
    /\ data = <<>>
    /\ model = ""
    /\ nugget = Null
    /\ sill = Null
    /\ range = Null
    /\ K = NullMatrix
    /\ M = NullMatrix
    /\ augmented = <<>>
    /\ i = 0
    /\ warnings = 0
    /\ last = NoCall
    /\ IdwIdle
    /\ UiIdle

\* params.model || 'exponential'  ("" stands for an absent selector)
modelOrDefault(selector) ==
    IF selector = "" THEN "exponential" ELSE selector

\* constructor, the field assignments and the test  sill === null || range === null
Construct ==
    /\ pc = "start"
    /\ data' = argData
    /\ model' = modelOrDefault(argParams.model)
    /\ nugget' = IF argParams.nugget \in {Null, Zero, NaN} THEN Zero
                 ELSE argParams.nugget
    /\ sill' = argParams.sill
    /\ range' = argParams.range
    /\ pc' = IF argParams.sill = Null \/ argParams.range = Null
             THEN "fit" ELSE "prepare"
    /\ UNCHANGED idwVars
    /\ UNCHANGED uiVars
    /\ UNCHANGED <<argData, argParams, K, M, augmented, i, warnings, last>>

\* constructor: this.fitVariogram()
FitVariogram ==
    /\ pc = "fit"
    /\ LET fit == fitVariogram(data, nugget)
       IN  /\ sill' = fit[1]
           /\ range' = fit[2]
           /\ nugget' = fit[3]
    /\ pc' = "prepare"
    /\ UNCHANGED idwVars
    /\ UNCHANGED uiVars
    /\ UNCHANGED <<argData, argParams, data, model, K, M, augmented, i,
                   warnings, last>>

\* prepareMatrices: the loops that fill K
BuildK ==
    /\ pc = "prepare"
    /\ K' = covariance(data)
    /\ pc' = "built"
    /\ UNCHANGED idwVars
    /\ UNCHANGED uiVars
    /\ UNCHANGED <<argData, argParams, data, model, nugget, sill, range, M,
                   augmented, i, warnings, last>>

\* prepareMatrices calls invertMatrix(K): the augmented copy is made
InvertBegin ==
    /\ pc = "built"
    /\ augmented' = augment(K)
    /\ i' = 1
    /\ pc' = "invert"
    /\ UNCHANGED idwVars
    /\ UNCHANGED uiVars
    /\ UNCHANGED <<argData, argParams, data, model, nugget, sill, range, K, M,
                   warnings, last>>

\* invertMatrix: one iteration of the loop  for (i = 0; i < n; i++)
InvertStep ==
    /\ pc = "invert"
    /\ i <= Len(augmented)
    /\ augmented' = columnStep(augmented, i)
    /\ warnings' =
         IF isSingularPivot(swapRows(augmented, i, pivotRow(augmented, i))[i][i])
         THEN warnings + 1 ELSE warnings
    /\ i' = i + 1
    /\ UNCHANGED idwVars
    /\ UNCHANGED uiVars
    /\ UNCHANGED <<argData, argParams, pc, data, model, nugget, sill, range,
                   K, M, last>>

\* invertMatrix returns, prepareMatrices assigns M and the constructor returns
InvertEnd ==
    /\ pc = "invert"
    /\ i > Len(augmented)
    /\ M' = extractInverse(augmented)
    /\ pc' = "ready"
    /\ UNCHANGED idwVars
    /\ UNCHANGED uiVars
    /\ UNCHANGED <<argData, argParams, data, model, nugget, sill, range, K,
                   augmented, i, warnings, last>>

\* variance calling prepareMatrices again before it answers
VarianceRebuilding(lon, lat) ==
    /\ ~matrixNotInitialized
    /\ pc' = "prepare"
    /\ last' = [NoCall EXCEPT !.op = "variance", !.lon = lon, !.lat = lat,
                              !.value = varianceValue(lon, lat)]
    /\ UNCHANGED idwVars
    /\ UNCHANGED uiVars
    /\ UNCHANGED <<argData, argParams, data, model, nugget, sill, range,
                   K, M, augmented, i, warnings>>

Interpolate(lon, lat) ==
    /\ last' = IF matrixNotInitialized
               THEN [NoCall EXCEPT !.op = "interpolate", !.lon = lon, !.lat = lat,
                                   !.threw = "Matrix not initialized"]
               ELSE [NoCall EXCEPT !.op = "interpolate", !.lon = lon, !.lat = lat,
                                   !.value = interpolateValue(lon, lat)]
    /\ UNCHANGED idwVars
    /\ UNCHANGED uiVars
    /\ UNCHANGED <<argData, argParams, pc, data, model, nugget, sill, range,
                   K, M, augmented, i, warnings>>

Variance(lon, lat) ==
    /\ last' = IF matrixNotInitialized
               THEN [NoCall EXCEPT !.op = "variance", !.lon = lon, !.lat = lat,
                                   !.threw = "Matrix not initialized"]
               ELSE [NoCall EXCEPT !.op = "variance", !.lon = lon, !.lat = lat,
                                   !.value = varianceValue(lon, lat)]
    /\ UNCHANGED idwVars
    /\ UNCHANGED uiVars
    /\ UNCHANGED <<argData, argParams, pc, data, model, nugget, sill, range,
                   K, M, augmented, i, warnings>>

GetParameters ==
    /\ last' = [NoCall EXCEPT !.op = "getParameters",
                              !.params = resolvedParameters]
    /\ UNCHANGED idwVars
    /\ UNCHANGED uiVars
    /\ UNCHANGED <<argData, argParams, pc, data, model, nugget, sill, range,
                   K, M, augmented, i, warnings>>

Query ==
    \/ \E q \in QueryPoints : Interpolate(q[1], q[2])
    \/ \E q \in QueryPoints : Variance(q[1], q[2])
    \/ GetParameters

Next ==
    \/ Construct
    \/ FitVariogram
    \/ BuildK
    \/ InvertBegin
    \/ InvertStep
    \/ InvertEnd
    \/ (pc = "ready" /\ Query)

Spec == Init /\ [][Next]_vars

----------------------------------------------------------------------------
(* The public methods called at any position of the constructor: the       *)
(* object exists, with K and M null, from the moment its fields are        *)
(* initialised, and interpolate and variance guard against that            *)

NextEarly ==
    \/ Construct
    \/ FitVariogram
    \/ BuildK
    \/ InvertBegin
    \/ InvertStep
    \/ InvertEnd
    \/ (pc # "start" /\ Query)

\* under the default model and nugget, every sample list, sill and range
InitEarly == Init /\ argParams.model = "" /\ argParams.nugget = Null

SpecEarly == InitEarly /\ [][NextEarly]_vars

----------------------------------------------------------------------------
(* invertMatrix alone, on any square matrix                                *)

\* largest dimension of the matrices handed to invertMatrix
MaxDim == 3

MatrixEntries == {Num(-2), Zero, One}

Matrices == UNION { [1..n -> [1..n -> MatrixEntries]] : n \in 0..MaxDim }

InitInvert ==
    /\ K \in Matrices
    /\ pc = "built"
    /\ argData = <<>>
    /\ argParams = [model |-> "", nugget |-> Null, sill |-> Null, range |-> Null]
    /\ data = <<>>
    /\ model = ""
    /\ nugget = Null
    /\ sill = Null
    /\ range = Null
    /\ M = NullMatrix
    /\ augmented = <<>>
    /\ i = 0
    /\ warnings = 0
    /\ last = NoCall
    /\ IdwIdle
    /\ UiIdle

NextInvert ==
    \/ InvertBegin
    \/ InvertStep
    \/ InvertEnd

SpecInvert == InitInvert /\ [][NextInvert]_vars

----------------------------------------------------------------------------
(* Vocabulary of the properties                                            *)

IsFiniteSample(s) == IsFinite(s.lon) /\ IsFinite(s.lat) /\ IsFinite(s.h2)

AllFinite(d) == \A j \in 1..Len(d) : IsFiniteSample(d[j])

\* the constructor runs the Fitter
FitterRuns == argParams.sill = Null \/ argParams.range = Null

\* the last call was made at the location of sample j
AtSample(j) == last.lon = data[j].lon /\ last.lat = data[j].lat

Returned(op) == last.op = op /\ last.threw = ""

MatrixProduct(A, B) ==
    Array(LAMBDA a :
            Array(LAMBDA b :
                    SumSeq(Array(LAMBDA c : Mul(A[a][c], B[c][b]), Len(A))),
                  Len(A)),
          Len(A))

IdentityMatrix(n) ==
    Array(LAMBDA a : Array(LAMBDA b : IF a = b THEN One ELSE Zero, n), n)

MatrixIsFinite(A) ==
    \A a \in 1..Len(A) : \A b \in 1..Len(A) : IsFinite(A[a][b])

\* the pivot that the column step about to run will test
NextPivot == swapRows(augmented, i, pivotRow(augmented, i))[i][i]

----------------------------------------------------------------------------
(* C1.  Exact interpolation: on an engine built without a singular-pivot   *)
(* warning, interpolate at the location of a sample returns that sample's  *)
(* h2.  The constructor accepts non-finite samples (C8), and then it does  *)
(* not: with data [(0,0,1), (3,4,NaN)], sill 2, range 4 the weights at     *)
(* (0,0) are (1, 0) and the value is 1*1 + 0*NaN = NaN.                    *)
C1_ExactInterpolation ==
    (pc = "ready" /\ warnings = 0 /\ Returned("interpolate"))
        => \A j \in 1..Len(data) : AtSample(j) => last.value = data[j].h2

\* on finite samples the property holds
ExactInterpolationOnFiniteSamples ==
    (pc = "ready" /\ warnings = 0 /\ AllFinite(data))
        => \A j \in 1..Len(data) :
                interpolateValue(data[j].lon, data[j].lat) = data[j].h2

(* C2.  variance returns a value >= 0 on every engine the constructor      *)
(* returns.  Math.max(0, NaN) is NaN: the engine fitted on an empty list   *)
(* (C6) has sill NaN, and so has one built from non-finite samples (C8).   *)
C2_VarianceNonNegative ==
    (pc = "ready" /\ Returned("variance")) => Ge(last.value, Zero)

\* on finite samples, and at least two of them when the Fitter runs, it holds
VarianceNonNegativeOnValidInput ==
    (pc = "ready" /\ AllFinite(data) /\ (FitterRuns => Len(data) >= 2))
        => \A q \in QueryPoints : Ge(varianceValue(q[1], q[2]), Zero)

(* C3.  On an engine built without a singular-pivot warning, variance at   *)
(* the location of a sample is 0.  With a sample of infinite longitude     *)
(* (C8) K holds NaN, no pivot is below the tolerance, and variance is NaN. *)
C3_ZeroVarianceAtSamples ==
    (pc = "ready" /\ warnings = 0 /\ Returned("variance"))
        => \A j \in 1..Len(data) : AtSample(j) => last.value = Zero

\* on finite samples the property holds
ZeroVarianceOnFiniteSamples ==
    (pc = "ready" /\ warnings = 0 /\ AllFinite(data))
        => \A j \in 1..Len(data) :
                varianceValue(data[j].lon, data[j].lat) = Zero

(* C4.  After construction no call of interpolate, variance or             *)
(* getParameters changes data, model, nugget, sill, range, K or M;         *)
(* getParameters returns the resolved parameters; and a result returned    *)
(* earlier is the result the same query returns in every later state.      *)
C4_QueriesLeaveTheEngineUnchanged ==
    /\ [][pc = "ready" => fields' = fields]_vars
    /\ [](last.op = "getParameters" => last.params = resolvedParameters)
    /\ [](Returned("interpolate")
            => last.value = interpolateValue(last.lon, last.lat))
    /\ [](Returned("variance")
            => last.value = varianceValue(last.lon, last.lat))

C4_Witness ==
    /\ pc = "ready"
    /\ last.op = "getParameters"
    /\ argParams.sill = Null
    /\ Len(data) = 2
    /\ last.params.sill = Rat(6, 5)

(* C5.  interpolate and variance throw 'Matrix not initialized' whenever M *)
(* is null, and a value is returned only by an engine that is Ready.       *)
C5_NoValueBeforeReady ==
    last.op \in {"interpolate", "variance"}
        => /\ last.threw \in {"", "Matrix not initialized"}
           /\ last.threw = "" => (pc = "ready" /\ M # NullMatrix)
           /\ M = NullMatrix => last.threw = "Matrix not initialized"

C5_Witness ==
    /\ pc = "invert"
    /\ K # NullMatrix
    /\ last.op = "variance"
    /\ last.threw = "Matrix not initialized"

(* C6.  Constructing from fewer than 2 samples with sill or range not      *)
(* supplied fails: no engine is returned and no zero, negative or infinite *)
(* range is stored.  The code has no such check: from one sample it stores *)
(* range = -Infinity (Math.max of no distances) and returns the engine.    *)
C6_TooFewSamplesRejected ==
    (Len(argData) < 2 /\ FitterRuns)
        => /\ pc # "ready"
           /\ pc \in {"prepare", "built", "invert"}
                => (IsFinite(range) /\ Gt(range, Zero))

(* C7.  Constructing with a supplied range <= 0, or with sill <= nugget,   *)
(* fails and returns no engine.  The code checks neither.                  *)
C7_BadParametersRejected ==
    (/\ ~FitterRuns
     /\ \/ Le(argParams.range, Zero)
        \/ Le(argParams.sill, IF argParams.nugget = Null THEN Zero
                              ELSE argParams.nugget))
        => pc # "ready"

(* C8.  A sample list holding a NaN or infinite lat, lon or h2 is rejected *)
(* at construction: no engine built from it answers a query.  The code     *)
(* never looks at the samples.                                             *)
C8_NonFiniteSamplesRejected ==
    ~AllFinite(argData)
        => /\ pc # "ready"
           /\ ~Returned("interpolate")
           /\ ~Returned("variance")

(* C9.  Every inversion that meets a pivot of absolute value below 1e-10   *)
(* is flagged, so that no M that is not the inverse of K is put in use     *)
(* without a warning having been raised.  A NaN pivot passes the test      *)
(* Math.abs(pivot) < 1e-10: with a sample of infinite longitude (C8) K     *)
(* holds NaN, no warning is raised, and M is NaN throughout.               *)
C9_NoSilentInexactInverse ==
    (pc = "ready" /\ MatrixProduct(K, M) # IdentityMatrix(Len(K)))
        => warnings > 0

\* the column step that meets a pivot below the tolerance raises the warning
SingularPivotStepWarns ==
    [][(pc = "invert" /\ i <= Len(augmented) /\ i' = i + 1
         /\ BelowTolerance(MathAbs(NextPivot)))
       => warnings' = warnings + 1]_vars

\* when K is finite, the property holds
NoSilentInexactInverseOfFiniteK ==
    (pc = "ready" /\ MatrixIsFinite(K)
       /\ MatrixProduct(K, M) # IdentityMatrix(Len(K)))
        => warnings > 0

(* C10.  Inversion round trip: when no pivot of the inversion of A falls   *)
(* below the tolerance, A times invertMatrix(A) is the identity.           *)
C10_InverseRoundTrip ==
    (pc = "ready" /\ warnings = 0)
        => MatrixProduct(K, M) = IdentityMatrix(Len(K))

\* a 3 x 3 matrix inverted with a row swap in the first column
C10_Witness ==
    /\ pc = "ready"
    /\ warnings = 0
    /\ Len(K) = 3
    /\ K[1][1] = Zero
    /\ M # K
    /\ MatrixProduct(K, M) = IdentityMatrix(3)

(* C11.  A sill or a range that the caller supplies is the value that      *)
(* getParameters returns after construction.  fitVariogram runs as soon as *)
(* one of the two is absent and then assigns both this.sill and            *)
(* this.range, so a supplied sill with an absent range is overwritten.     *)
C11_SuppliedParametersKept ==
    (pc = "ready" /\ last.op = "getParameters")
        => /\ argParams.sill # Null => last.params.sill = argParams.sill
           /\ argParams.range # Null => last.params.range = argParams.range

\* when both are supplied the Fitter does not run and both are kept
SuppliedPairKept ==
    (pc = "ready" /\ ~FitterRuns)
        => (sill = argParams.sill /\ range = argParams.range)

----------------------------------------------------------------------------
(* interpolateIDW: inverse distance weighting                              *)

MaxPoints == 3

IdwPool ==
    { Sample(Num(0), Num(0), Num(10)),
      Sample(Num(1), Num(0), Num(20)),
      Sample(Num(0), Num(0), Num(20)),
      Sample(Rat(1, 2), Rat(6, 5), Num(0)) }

IdwLists == UNION { [1..n -> IdwPool] : n \in 0..MaxPoints }

\* power, default 2
PowerArgs == {1, 2}

\* minDistance, default 0.0001
MinDistanceArgs == {Rat(1, 10000), One}

IdwCalls ==
    [lon : {Zero, Rat(1, 2)}, lat : {Zero}, points : IdwLists,
     power : PowerArgs, minDistance : MinDistanceArgs]

idwDistance(point, lon, lat) ==
    MathSqrt(Add(MathPow(Sub(point.lon, lon), 2),
                 MathPow(Sub(point.lat, lat), 2)))

\* a weight that forgets the power
idwWeightLinear(d, power) == Div(One, d)

\* const weight = 1 / Math.pow(distance, power)
idwWeight(d, power) == Div(One, MathPow(d, power))

\* the loop without its early return
RECURSIVE idwLoopToTheEnd(_, _, _, _)
idwLoopToTheEnd(c, k, ws, vs) ==
    IF k > Len(c.points)
    THEN [returned |-> Div(vs, ws), index |-> k, weightSum |-> ws,
          valueSum |-> vs]
    ELSE LET point == c.points[k]
             weight == idwWeight(idwDistance(point, c.lon, c.lat), c.power)
         IN  idwLoopToTheEnd(c, k + 1, Add(ws, weight),
                             Add(vs, Mul(weight, point.h2)))

\* the for-of loop from point k on, with the accumulators ws and vs, and the
\* return that ends it: the locals at the return and the value returned
RECURSIVE idwLoop(_, _, _, _)
idwLoop(c, k, ws, vs) ==
    IF k > Len(c.points)
    THEN [returned |-> Div(vs, ws), index |-> k, weightSum |-> ws,
          valueSum |-> vs]
    ELSE LET point == c.points[k]
             d == idwDistance(point, c.lon, c.lat)
             weight == idwWeight(d, c.power)
         IN  IF Lt(d, c.minDistance)
             THEN [returned |-> point.h2, index |-> k, weightSum |-> ws,
                   valueSum |-> vs]
             ELSE idwLoop(c, k + 1, Add(ws, weight),
                          Add(vs, Mul(weight, point.h2)))

interpolateIDW(lon, lat, points, power, minDistance) ==
    idwLoop([lon |-> lon, lat |-> lat, points |-> points, power |-> power,
             minDistance |-> minDistance], 1, Zero, Zero).returned

krigingVars == <<argData, argParams, pc, data, model, nugget, sill, range,
                 K, M, augmented, i, warnings, last>>

InterpolateIDW ==
    /\ idwPc = "loop"
    /\ LET exit == idwLoop(idwCall, 1, weightSum, valueSum)
       IN  /\ returned' = exit.returned
           /\ idwIndex' = exit.index
           /\ weightSum' = exit.weightSum
           /\ valueSum' = exit.valueSum
    /\ idwPc' = "done"
    /\ UNCHANGED idwCall
    /\ UNCHANGED krigingVars
    /\ UNCHANGED uiVars

InitIDW ==
    /\ idwCall \in IdwCalls
    /\ idwPc = "loop"
    /\ idwIndex = 1
    /\ weightSum = Zero
    /\ valueSum = Zero
    /\ returned = Null
    /\ argData = <<>>
    /\ argParams = [model |-> "", nugget |-> Null, sill |-> Null, range |-> Null]
    /\ pc = "start"
    /\ data = <<>>
    /\ model = ""
    /\ nugget = Null
    /\ sill = Null
    /\ range = Null
    /\ K = NullMatrix
    /\ M = NullMatrix
    /\ augmented = <<>>
    /\ i = 0
    /\ warnings = 0
    /\ last = NoCall
    /\ UiIdle

NextIDW == InterpolateIDW

SpecIDW == InitIDW /\ [][NextIDW]_vars

\* the points of the call at distance < minDistance from the query
NearPoints ==
    { j \in 1..Len(idwCall.points) :
        Lt(idwDistance(idwCall.points[j], idwCall.lon, idwCall.lat),
           idwCall.minDistance) }

PointDistance(j) == idwDistance(idwCall.points[j], idwCall.lon, idwCall.lat)

\* sum of h2_j / d_j^power over sum of 1 / d_j^power
WeightedAverage ==
    LET n == Len(idwCall.points)
    IN  Div(SumSeq(Array(LAMBDA j : Div(idwCall.points[j].h2,
                                       MathPow(PointDistance(j), idwCall.power)),
                         n)),
            SumSeq(Array(LAMBDA j : Div(One, MathPow(PointDistance(j),
                                                     idwCall.power)),
                         n)))

ArithmeticMean ==
    LET n == Len(idwCall.points)
    IN  Div(SumSeq(Array(LAMBDA j : idwCall.points[j].h2, n)), Num(n))

Equidistant ==
    \A j \in 1..Len(idwCall.points) : PointDistance(j) = PointDistance(1)

IndexPermutations(n) ==
    { f \in [1..n -> 1..n] : \A a, b \in 1..n : f[a] = f[b] => a = b }

(* C12.  IDW short-circuit: when some point lies at distance < minDistance *)
(* from the query, interpolateIDW returns the h2 of the first such point,  *)
(* exactly, whatever was accumulated from the points before it.            *)
C12_ShortCircuit ==
    (idwPc = "done" /\ NearPoints # {})
        => \E j \in NearPoints :
              /\ \A m \in NearPoints : j <= m
              /\ returned = idwCall.points[j].h2
              /\ idwIndex = j

\* the third point is the near one, after two points that were weighted
C12_Witness ==
    /\ idwPc = "done"
    /\ NearPoints = {3}
    /\ weightSum # Zero
    /\ returned = idwCall.points[3].h2
    /\ returned # idwLoopToTheEnd(idwCall, 1, Zero, Zero).returned

(* C13.  For a non-empty list and a query at distance >= minDistance from  *)
(* every point, interpolateIDW returns sum(h2/d^power) / sum(1/d^power),   *)
(* which is the arithmetic mean of the values when the points are          *)
(* equidistant from the query.                                             *)
C13_WeightedAverage ==
    (idwPc = "done" /\ Len(idwCall.points) > 0 /\ NearPoints = {})
        => /\ returned = WeightedAverage
           /\ Equidistant => returned = ArithmeticMean

\* (0,0,10) and (1,0,20), power 2, query (0.5, 0) give 15
C13_Witness ==
    /\ idwPc = "done"
    /\ idwCall = [lon |-> Rat(1, 2), lat |-> Zero,
                  points |-> << Sample(Num(0), Num(0), Num(10)),
                                Sample(Num(1), Num(0), Num(20)) >>,
                  power |-> 2, minDistance |-> Rat(1, 10000)]
    /\ returned = Num(15)

(* C14.  interpolateIDW called with an empty list reports the condition    *)
(* and does not return NaN.  The loop body never runs and the function     *)
(* returns valueSum / weightSum = 0 / 0.                                   *)
C14_EmptyListReported ==
    (idwPc = "done" /\ Len(idwCall.points) = 0) => ~IsNaN(returned)

(* C15.  Order independence: permuting the list leaves the result          *)
(* unchanged, also for a query within minDistance of several points.  The  *)
(* early return gives the value of the first near point of the list.       *)
C15_OrderIndependent ==
    idwPc = "done"
        => \A f \in IndexPermutations(Len(idwCall.points)) :
              interpolateIDW(idwCall.lon, idwCall.lat,
                             [j \in 1..Len(idwCall.points) |->
                                idwCall.points[f[j]]],
                             idwCall.power, idwCall.minDistance) = returned

\* with at most one near point the order does not matter
OrderIndependentAwayFromTies ==
    (idwPc = "done" /\ Cardinality(NearPoints) <= 1)
        => \A f \in IndexPermutations(Len(idwCall.points)) :
              interpolateIDW(idwCall.lon, idwCall.lat,
                             [j \in 1..Len(idwCall.points) |->
                                idwCall.points[f[j]]],
                             idwCall.power, idwCall.minDistance) = returned

----------------------------------------------------------------------------
(* Kriging.variogram on its own: the private method applied to a distance  *)
(* h under every combination of the fields it reads                        *)

VariogramModels == {"exponential", "gaussian", "spherical", "cubic"}

VariogramNuggets == {Zero, Rat(1, 2), Num(2)}

VariogramSills == {Zero, Num(2), Num(3)}

\* -Infinity is the range fitted on fewer than two samples
VariogramRanges == {NegInf, Zero, Num(2), Num(4)}

VariogramDistances == {Zero, One, Num(2), Num(4), Num(5), PosInf}

InitVariogram ==
    /\ \E selector \in VariogramModels \cup {""} :
          /\ argParams = [model |-> selector, nugget |-> Null, sill |-> Null,
                          range |-> Null]
          /\ model = modelOrDefault(selector)
    /\ nugget \in VariogramNuggets
    /\ sill \in VariogramSills
    /\ range \in VariogramRanges
    /\ pc = "variogram"
    /\ argData = <<>>
    /\ data = <<>>
    /\ K = NullMatrix
    /\ M = NullMatrix
    /\ augmented = <<>>
    /\ i = 0
    /\ warnings = 0
    /\ last = NoCall
    /\ IdwIdle
    /\ UiIdle

\* this.variogram(h); the argument is recorded in last.params
Variogram(h) ==
    /\ pc = "variogram"
    /\ last' = [NoCall EXCEPT !.op = "variogram", !.params = [h |-> h],
                              !.value = variogram(h)]
    /\ UNCHANGED idwVars
    /\ UNCHANGED uiVars
    /\ UNCHANGED <<argData, argParams, pc, data, model, nugget, sill, range,
                   K, M, augmented, i, warnings>>

NextVariogram == \E h \in VariogramDistances : Variogram(h)

SpecVariogram == InitVariogram /\ [][NextVariogram]_vars

(* C16.  With the spherical model variogram(h) returns exactly sill for    *)
(* every h >= range, for every nugget, sill and range.  The test h === 0   *)
(* comes first: with a range <= 0, which the constructor accepts (C7) and  *)
(* the Fitter produces from fewer than two samples (C6), variogram(0) is 0 *)
(* although 0 >= range.                                                    *)
C16_SphericalPlateau ==
    (last.op = "variogram" /\ model = "spherical"
       /\ Ge(last.params.h, range))
        => last.value = sill

\* with a range > 0 the property holds
SphericalPlateauForPositiveRange ==
    (last.op = "variogram" /\ model = "spherical"
       /\ Gt(range, Zero) /\ Ge(last.params.h, range))
        => last.value = sill

----------------------------------------------------------------------------
\* the last query is at distance >= range from every sample
FarField ==
    \A j \in 1..Len(data) :
        Ge(distance([lon |-> last.lon, lat |-> last.lat], data[j]), range)

FarFieldOutcome ==
    /\ \A j \in 1..Len(data) : covarianceVector(last.lon, last.lat)[j] = Zero
    /\ last.op = "variance" => last.value = sill
    /\ last.op = "interpolate" => last.value = Zero

(* C17.  Far field: with the spherical model, for a query at distance      *)
(* >= range from every sample, the covariance vector is all zeros,         *)
(* variance returns exactly sill and interpolate returns 0.  With a        *)
(* supplied range of 0 (C7) a query on a sample is in the far field and    *)
(* its covariance is sill; with a non-finite sample (C8) M holds NaN and   *)
(* interpolate returns NaN * 0.                                            *)
C17_FarField ==
    (pc = "ready" /\ model = "spherical"
       /\ last.op \in {"interpolate", "variance"} /\ FarField)
        => FarFieldOutcome

\* on finite samples and with a range > 0 the property holds
FarFieldOnValidInput ==
    (pc = "ready" /\ model = "spherical"
       /\ last.op \in {"interpolate", "variance"} /\ FarField
       /\ AllFinite(data) /\ Gt(range, Zero))
        => FarFieldOutcome

----------------------------------------------------------------------------
\* the phases of the constructor, in program order
PhaseRank(p) ==
    CASE p = "start" -> 0
      [] p = "fit" -> 1
      [] p = "prepare" -> 2
      [] p = "built" -> 3
      [] p = "invert" -> 4
      [] p = "ready" -> 5

(* C18.  Construction phases are ordered: the parameters are resolved (the *)
(* Fitter run when sill or range is absent) before K is built, K is built  *)
(* before it is inverted, M is assigned exactly once, and no query         *)
(* rebuilds K or inverts again.                                            *)
C18_PhasesOrdered ==
    /\ [][PhaseRank(pc') >= PhaseRank(pc)]_vars
    /\ [][(pc = "start" /\ pc' = "prepare") => ~FitterRuns]_vars
    /\ [][K' # K => (/\ pc = "prepare" /\ K = NullMatrix
                     /\ sill # Null /\ range # Null
                     /\ Len(K') = Len(data))]_vars
    /\ [][K # NullMatrix => UNCHANGED <<K, model, nugget, sill, range>>]_vars
    /\ [][augmented' # augmented
            => (PhaseRank(pc) \in {3, 4} /\ K # NullMatrix /\ M = NullMatrix)]_vars
    /\ [][M' # M => (/\ M = NullMatrix /\ pc = "invert" /\ pc' = "ready"
                     /\ i = Len(K) + 1)]_vars
    /\ [][pc = "ready" => UNCHANGED <<K, M, augmented, i, warnings>>]_vars

\* a fitted engine over three samples that has answered a query
C18_Witness ==
    /\ pc = "ready"
    /\ FitterRuns
    /\ Len(data) = 3
    /\ i = 4
    /\ M # NullMatrix
    /\ last.op = "variance"

(* C19.  When the Fitter derives the parameters from at least 2 samples,   *)
(* the resolved parameters satisfy sill > nugget and range > 0.  The       *)
(* Fitter stores sill = 1.2 * variance, range = 0.3 * maxDist and leaves a *)
(* non-zero nugget alone: equal values give sill = nugget = 0, coincident  *)
(* locations give range = 0, and a supplied nugget may exceed the sill.    *)
C19_FittedParametersValid ==
    (PhaseRank(pc) >= 2 /\ FitterRuns /\ Len(data) >= 2)
        => (Gt(sill, nugget) /\ Gt(range, Zero))

\* with finite samples, distinct values and locations, and the default
\* nugget, the fitted parameters are valid
FittedParametersValidOnSpreadSamples ==
    (/\ PhaseRank(pc) >= 2 /\ FitterRuns /\ Len(data) >= 2
     /\ AllFinite(data)
     /\ argParams.nugget \in {Null, Zero}
     /\ \E a, b \in 1..Len(data) : data[a].h2 # data[b].h2
     /\ \E a, b \in 1..Len(data) :
            data[a].lon # data[b].lon \/ data[a].lat # data[b].lat)
        => (Gt(sill, nugget) /\ Gt(range, Zero))

----------------------------------------------------------------------------
IsSquareOfDim(A, n) == Len(A) = n /\ \A a \in 1..n : Len(A[a]) = n

(* C20.  invertMatrix ends after exactly n column steps with an n x n     *)
(* result for every n x n input, singular ones included: the column index  *)
(* advances by one in every step and the loop is left at n + 1.  A step    *)
(* whose pivot is below 1e-10 in absolute value swaps the rows, neither    *)
(* normalises the pivot row nor eliminates the column, and the loop goes   *)
(* on to the next column.                                                  *)
C20_InversionAlwaysCompletes ==
    /\ [](pc = "invert" => (i \in 1..(Len(K) + 1) /\ Len(augmented) = Len(K)))
    /\ [](pc = "ready" => (i = Len(K) + 1 /\ IsSquareOfDim(M, Len(K))))
    /\ [][pc = "invert"
            => \/ (i <= Len(K) /\ pc' = "invert" /\ i' = i + 1)
               \/ (i = Len(K) + 1 /\ pc' = "ready")]_vars
    /\ [][(pc = "invert" /\ i' = i + 1 /\ isSingularPivot(NextPivot))
            => (/\ augmented' = swapRows(augmented, i, pivotRow(augmented, i))
                /\ warnings' = warnings + 1)]_vars

\* a singular 3 x 3 matrix: a row swap in the first column, one column skipped
C20_Witness ==
    /\ pc = "ready"
    /\ Len(K) = 3
    /\ K[1][1] = Zero
    /\ K[2][1] # Zero
    /\ warnings = 1
    /\ IsSquareOfDim(M, 3)

----------------------------------------------------------------------------
\* the augmented matrix after the row exchange of the column step about to run
SwappedRows == swapRows(augmented, i, pivotRow(augmented, i))

(* C21.  Partial pivoting: at every column step i, after the row swap no   *)
(* row from i on holds in column i an entry of larger absolute value than  *)
(* the pivot row i, and the rows above i are not moved by the swap.        *)
C21_PartialPivoting ==
    (pc = "invert" /\ i <= Len(augmented))
        => /\ pivotRow(augmented, i) \in i..Len(augmented)
           /\ \A k \in i..Len(augmented) :
                  ~Gt(MathAbs(SwappedRows[k][i]), MathAbs(SwappedRows[i][i]))
           /\ \A k \in 1..(i - 1) : SwappedRows[k] = augmented[k]
           /\ \E k \in i..Len(augmented) : SwappedRows[i] = augmented[k]

\* the second column of a 3 x 3 matrix, where the third row is brought up
C21_Witness ==
    /\ pc = "invert"
    /\ Len(K) = 3
    /\ i = 2
    /\ pivotRow(augmented, 2) = 3
    /\ SwappedRows # augmented

\* what the claim says of K, for the samples and the parameters of the engine
CovarianceStructure ==
    /\ IsSquareOfDim(K, Len(data))
    /\ \A a, b \in 1..Len(data) :
          /\ K[a][b] = K[b][a]
          /\ K[a][b] = Sub(sill, variogram(distance(data[a], data[b])))
    /\ \A a \in 1..Len(data) : K[a][a] = sill

(* C22.  The covariance matrix built at construction is n x n, symmetric,  *)
(* has K[i][j] = sill - variogram(distance(sample_i, sample_j)) and has    *)
(* every diagonal entry equal to sill.  For a sample of infinite longitude *)
(* or latitude (C8) the distance of the sample to itself is                *)
(* sqrt((Infinity - Infinity)^2 + ..) = NaN, not 0, and its diagonal entry *)
(* is NaN.                                                                 *)
C22_CovarianceStructure ==
    PhaseRank(pc) >= 3 => CovarianceStructure

\* on finite samples the property holds
CovarianceStructureOnFiniteSamples ==
    (PhaseRank(pc) >= 3 /\ AllFinite(data)) => CovarianceStructure

----------------------------------------------------------------------------
(* C23.  variogram(0) returns 0 for every model selector and every nugget, *)
(* sill and range, a nugget > 0 and a range <= 0 included.                 *)
C23_VariogramAtZero ==
    (last.op = "variogram" /\ last.params.h = Zero)
        => (last.threw = "" /\ last.value = Zero)

\* gaussian model, nugget 2, range 0
C23_Witness ==
    /\ last.op = "variogram"
    /\ last.params.h = Zero
    /\ model = "gaussian"
    /\ nugget = Num(2)
    /\ range = Zero
    /\ last.value = Zero

----------------------------------------------------------------------------
\* the population variance of the h2 of the list d: the mean of the squares
\* minus the square of the mean
PopulationVariance(d) ==
    LET n == Len(d)
        meanOfSquares == Div(SumSeq(Array(LAMBDA a : Mul(d[a].h2, d[a].h2), n)),
                             Num(n))
        mean == Div(SumSeq(Array(LAMBDA a : d[a].h2, n)), Num(n))
    IN  Sub(meanOfSquares, Mul(mean, mean))

\* the largest of the distances between two entries of d, NaN if one is NaN
LargestDistance(d) ==
    LET pairs == { p \in (1..Len(d)) \X (1..Len(d)) : p[1] < p[2] }
        dists == { distance(d[p[1]], d[p[2]]) : p \in pairs }
    IN  IF NaN \in dists THEN NaN
        ELSE CHOOSE x \in dists : \A y \in dists : Le(y, x)

(* C24.  When the Fitter runs it sets sill to 1.2 times the population     *)
(* variance of the values (squared deviations summed and divided by n) and *)
(* range to 0.3 times the largest distance between two samples; coincident *)
(* samples are counted like the others.                                    *)
C24_FittedSillAndRange ==
    (PhaseRank(pc) >= 2 /\ FitterRuns)
        => /\ Len(data) >= 1
                => sill = Mul(Rat(6, 5), PopulationVariance(data))
           /\ Len(data) >= 2
                => range = Mul(Rat(3, 10), LargestDistance(data))

\* (0,0,1) twice and (3,0,3): the variance is taken over three values
C24_Witness ==
    /\ pc = "ready"
    /\ FitterRuns
    /\ data = << Sample(Num(0), Num(0), Num(1)), Sample(Num(0), Num(0), Num(1)),
                 Sample(Num(3), Num(0), Num(3)) >>
    /\ sill = Rat(16, 15)
    /\ range = Rat(9, 10)

----------------------------------------------------------------------------
NuggetSupplied == argParams.nugget # Null

(* C25.  After construction the nugget is: 0.05 times the sill when the    *)
(* Fitter ran and no nugget was supplied; the supplied nugget, unchanged,  *)
(* when one was supplied (0 included); 0 when the Fitter did not run and   *)
(* no nugget was supplied.                                                 *)
(* Violated: the constructor stores  params.nugget || 0  and the Fitter    *)
(* tests  this.nugget === 0,  so a supplied nugget 0 is taken for an       *)
(* absent one and replaced by 0.05 times the fitted sill.                  *)
C25_NuggetResolution ==
    PhaseRank(pc) >= 2
        => /\ (FitterRuns /\ ~NuggetSupplied) => nugget = Mul(Rat(1, 20), sill)
           /\ NuggetSupplied => nugget = argParams.nugget
           /\ (~FitterRuns /\ ~NuggetSupplied) => nugget = Zero

\* the three cases hold when the supplied nugget is not 0 or the Fitter does
\* not run
NuggetResolutionExceptSuppliedZero ==
    (PhaseRank(pc) >= 2 /\ ~(FitterRuns /\ argParams.nugget = Zero))
        => /\ (FitterRuns /\ ~NuggetSupplied) => nugget = Mul(Rat(1, 20), sill)
           /\ NuggetSupplied => nugget = argParams.nugget
           /\ (~FitterRuns /\ ~NuggetSupplied) => nugget = Zero

----------------------------------------------------------------------------
KnownModels == {"exponential", "gaussian", "spherical"}

\* nugget + (sill - nugget)(1 - exp(-3h / range))
ExponentialFormula(h) ==
    Add(nugget, Mul(Sub(sill, nugget),
                    Sub(One, MathExp(Div(Mul(Num(-3), h), range)))))

(* C26.  With a model selector that is absent or none of 'exponential',    *)
(* 'gaussian', 'spherical', variogram raises no error and returns for      *)
(* every h the value the exponential model returns:                        *)
(* nugget + (sill - nugget)(1 - exp(-3h / range)), and 0 at h = 0 as for   *)
(* every model.                                                            *)
C26_UnknownModelIsExponential ==
    (last.op = "variogram" /\ argParams.model \notin KnownModels)
        => /\ last.threw = ""
           /\ last.value = variogramOf("exponential", nugget, sill, range,
                                       last.params.h)
           /\ last.params.h # Zero
                => last.value = ExponentialFormula(last.params.h)

\* selector 'cubic', nugget 1/2, sill 2, range 4, h = 2
C26_Witness ==
    /\ last.op = "variogram"
    /\ argParams.model = "cubic"
    /\ nugget = Rat(1, 2) /\ sill = Num(2) /\ range = Num(4)
    /\ last.params.h = Num(2)
    /\ last.value = ExponentialFormula(Num(2))
    /\ last.value # variogramOf("gaussian", nugget, sill, range, Num(2))

\* an absent selector
C26_WitnessAbsent ==
    /\ last.op = "variogram"
    /\ argParams.model = ""
    /\ last.params.h = Num(2)
    /\ last.value = ExponentialFormula(Num(2))

----------------------------------------------------------------------------
(* The component App of src/src/App.js: the effect that loads the data and *)
(* builds the Kriging instance, run after the first render and after every *)
(* change of variogramModel.                                               *)

\* number of calls of loadData a behaviour may start
MaxLoads == 3

\* a line of the file: parseFloat of its three fields lat; lon; h2
CsvLine(lat, lon, h2) == <<lat, lon, h2>>

\* the header line: parseFloat gives NaN on each name
CsvHeader == CsvLine(NaN, NaN, NaN)

CsvFiles ==
    { << CsvHeader, CsvLine(Num(0), Num(0), Num(1)),
         CsvLine(Num(0), Num(3), Num(3)) >>,
      << CsvHeader, CsvLine(Num(0), Num(0), Num(1)),
         CsvLine(Num(4), NaN, Num(2)), CsvLine(Num(4), Num(0), Num(5)) >>,
      << CsvHeader >> }

SelectableModels == {"exponential", "gaussian", "spherical"}

RECURSIVE filterValid(_)
\* .filter(d => !isNaN(d.lat) && !isNaN(d.lon) && !isNaN(d.h2))
filterValid(rows) ==
    IF rows = <<>> THEN <<>>
    ELSE LET d == Head(rows)
         IN  IF ~IsNaN(d.lat) /\ ~IsNaN(d.lon) /\ ~IsNaN(d.h2)
             THEN <<d>> \o filterValid(Tail(rows))
             ELSE filterValid(Tail(rows))

\* lines.slice(1).map(line => ({lat, lon, h2})).filter(...)
parseCsv(lines) ==
    filterValid(Array(LAMBDA a : [lat |-> lines[a + 1][1],
                                  lon |-> lines[a + 1][2],
                                  h2 |-> lines[a + 1][3]],
                      Len(lines) - 1))

\* Math.min(...list): Infinity for the empty list
MathMinOf(s) == Neg(MathMaxOf(Array(LAMBDA a : Neg(s[a]), Len(s))))

\* new Kriging(d, {model: selector}): the parameters of the instance (sill and
\* range are absent, so the Fitter runs with nugget 0)
newKriging(d, selector) ==
    LET fit == fitVariogram(d, Zero)
    IN  [data |-> d, model |-> modelOrDefault(selector), nugget |-> fit[3],
         sill |-> fit[1], range |-> fit[2]]

\* kriging.getParameters()
getParameters(kriging) ==
    [model |-> kriging.model, nugget |-> kriging.nugget,
     sill |-> kriging.sill, range |-> kriging.range]

\* the effect: loadData() up to  await fetch(csvData)
startLoad(selected) == [variogramModel |-> selected, at |-> "fetch"]

\* first render and its effect
InitApp ==
    /\ csvData \in CsvFiles
    /\ variogramModel = "exponential"
    /\ loads = << startLoad("exponential") >>
    /\ appData = <<>>
    /\ minValue = Zero
    /\ maxValue = Zero
    /\ error = Null
    /\ krigingModel = Null
    /\ krigingParams = Null
    /\ MapIdle
    /\ argData = <<>>
    /\ argParams = [model |-> "", nugget |-> Null, sill |-> Null, range |-> Null]
    /\ pc = "start"
    /\ data = <<>>
    /\ model = ""
    /\ nugget = Null
    /\ sill = Null
    /\ range = Null
    /\ K = NullMatrix
    /\ M = NullMatrix
    /\ augmented = <<>>
    /\ i = 0
    /\ warnings = 0
    /\ last = NoCall
    /\ IdwIdle

\* onChange of the variogram select: setVariogramModel(m), the render and the
\* effect of the dependency [variogramModel]
SetVariogramModel(m) ==
    /\ loads # <<>>
    /\ m # variogramModel
    /\ Len(loads) < MaxLoads
    /\ variogramModel' = m
    /\ loads' = Append(loads, startLoad(m))
    /\ UNCHANGED <<csvData, appData, minValue, maxValue, error, krigingModel,
                   krigingParams>>
    /\ UNCHANGED <<krigingVars, idwVars, mapVars>>

\* await fetch(csvData) of load k resolves
FetchResolves(k) ==
    /\ k \in 1..Len(loads)
    /\ loads[k].at = "fetch"
    /\ loads' = [loads EXCEPT ![k].at = "text"]
    /\ UNCHANGED <<csvData, variogramModel, appData, minValue, maxValue, error,
                   krigingModel, krigingParams>>
    /\ UNCHANGED <<krigingVars, idwVars, mapVars>>

\* fetch or response.text() of load k rejects: the catch clause
LoadRejects(k) ==
    /\ k \in 1..Len(loads)
    /\ loads[k].at \in {"fetch", "text"}
    /\ loads' = [loads EXCEPT ![k].at = "failed"]
    /\ error' = "Error loading data"
    /\ UNCHANGED <<csvData, variogramModel, appData, minValue, maxValue,
                   krigingModel, krigingParams>>
    /\ UNCHANGED <<krigingVars, idwVars, mapVars>>

\* await response.text() of load k resolves: the rest of the try block
TextResolves(k) ==
    /\ k \in 1..Len(loads)
    /\ loads[k].at = "text"
    /\ LET parsedData == parseCsv(csvData)
           h2Values == Array(LAMBDA a : parsedData[a].h2, Len(parsedData))
           kriging == newKriging(parsedData, loads[k].variogramModel)
       IN  /\ appData' = parsedData
           /\ minValue' = MathMinOf(h2Values)
           /\ maxValue' = MathMaxOf(h2Values)
           /\ krigingModel' = kriging
           /\ krigingParams' = getParameters(kriging)
    /\ loads' = [loads EXCEPT ![k].at = "done"]
    /\ UNCHANGED <<csvData, variogramModel, error>>
    /\ UNCHANGED <<krigingVars, idwVars, mapVars>>

NextApp ==
    \/ \E m \in SelectableModels : SetVariogramModel(m)
    \/ \E k \in 1..MaxLoads : FetchResolves(k)
    \/ \E k \in 1..MaxLoads : LoadRejects(k)
    \/ \E k \in 1..MaxLoads : TextResolves(k)

SpecApp == InitApp /\ [][NextApp]_vars

AllLoadsCompleted == \A k \in 1..Len(loads) : loads[k].at = "done"

EachLoadStoresItsOwnModel ==
    [][\A k \in 1..Len(loads) :
          (loads[k].at = "text" /\ loads'[k].at = "done")
              => /\ krigingModel'.model = loads[k].variogramModel
                 /\ krigingParams' = getParameters(krigingModel')]_vars

\* the stored pair is always consistent and built by a completed load
StoredModelComesFromACompletedLoad ==
    krigingModel # Null
        => /\ krigingParams = getParameters(krigingModel)
           /\ \E k \in 1..Len(loads) :
                /\ loads[k].at = "done"
                /\ krigingModel.model = loads[k].variogramModel

----------------------------------------------------------------------------
(* The component App of src/unnamed/part_000: the map, its effect that     *)
(* loads the data once and its effect that regenerates the heatmap.        *)

AlgorithmOptions == {"kriging", "idw"}

OpacityArgs == {Zero, Rat(3, 5), One}

\* a parameter with a default value: the default replaces an absent ("")
\* argument
defaultTo(argument, default) ==
    IF argument = "" THEN default ELSE argument

\* generateHeatmap(h2Data, bounds, algorithm = 'kriging',
\*                 variogramModel = 'exponential'):
\* the parameters it runs with and the Kriging instance whose interpolate
\* colours the grid (null: interpolateIDW colours it)
generateHeatmap(h2, b, alg, vm) ==
    LET a == defaultTo(alg, "kriging")
        v == defaultTo(vm, "exponential")
    IN  [h2Data |-> h2, bounds |-> b, algorithm |-> a, variogramModel |-> v,
         krigingModel |-> IF a = "kriging" THEN newKriging(h2, v) ELSE Null]

\* the effect of [h2Data, bounds, algorithm, variogramModel] run with the
\* values of a render: the call it makes (Null: none) and whether it throws.
\* generateHeatmap returns the string canvas.toDataURL(), which has no then:
\* the call  .then(...)  throws a TypeError and setHeatmapImageUrl is not
\* reached.
heatmapEffect(h2, b, alg) ==
    IF Len(h2) = 0 \/ b = Null
    THEN [call |-> Null, threw |-> FALSE]
    ELSE [call |-> generateHeatmap(h2, b, alg, ""), threw |-> TRUE]

\* first render and its effects: loadH2Data() up to await fetch; the heatmap
\* effect returns at once (h2Data is empty)
InitMap ==
    /\ mapCsv \in CsvFiles
    /\ mapLoad = "fetch"
    /\ h2Data = <<>>
    /\ bounds = Null
    /\ algorithm = "kriging"
    /\ opacity = Rat(3, 5)
    /\ mapVariogramModel = "exponential"
    /\ heatmapImageUrl = Null
    /\ heatmapCall = Null
    /\ effectThrew = FALSE
    /\ AppIdle
    /\ argData = <<>>
    /\ argParams = [model |-> "", nugget |-> Null, sill |-> Null, range |-> Null]
    /\ pc = "start"
    /\ data = <<>>
    /\ model = ""
    /\ nugget = Null
    /\ sill = Null
    /\ range = Null
    /\ K = NullMatrix
    /\ M = NullMatrix
    /\ augmented = <<>>
    /\ i = 0
    /\ warnings = 0
    /\ last = NoCall
    /\ IdwIdle

\* the component is mounted; an error thrown by an effect unmounts it
Mounted == mapLoad # "unmounted" /\ ~effectThrew

\* the render that follows a change of a dependency, and the heatmap effect
RunHeatmapEffect(h2, b, alg) ==
    LET effect == heatmapEffect(h2, b, alg)
    IN  /\ heatmapCall' = IF effect.call = Null THEN heatmapCall
                          ELSE effect.call
        /\ effectThrew' = effect.threw
        /\ UNCHANGED heatmapImageUrl

\* onChange of the algorithm select
SetAlgorithm(a) ==
    /\ Mounted
    /\ a # algorithm
    /\ algorithm' = a
    /\ RunHeatmapEffect(h2Data, bounds, a)
    /\ UNCHANGED <<mapCsv, mapLoad, h2Data, bounds, opacity, mapVariogramModel>>
    /\ UNCHANGED <<krigingVars, idwVars, appVars>>

\* onChange of the variogram select, rendered when algorithm === 'kriging'
SetMapVariogramModel(m) ==
    /\ Mounted
    /\ algorithm = "kriging"
    /\ m # mapVariogramModel
    /\ mapVariogramModel' = m
    /\ RunHeatmapEffect(h2Data, bounds, algorithm)
    /\ UNCHANGED <<mapCsv, mapLoad, h2Data, bounds, opacity, algorithm>>
    /\ UNCHANGED <<krigingVars, idwVars, appVars>>

\* onChange of the opacity slider: no dependency of the effect changes
SetOpacity(o) ==
    /\ Mounted
    /\ o # opacity
    /\ opacity' = o
    /\ UNCHANGED <<mapCsv, mapLoad, h2Data, bounds, algorithm,
                   mapVariogramModel, heatmapImageUrl, heatmapCall,
                   effectThrew>>
    /\ UNCHANGED <<krigingVars, idwVars, appVars>>

\* await fetch(filePath) resolves
MapFetchResolves ==
    /\ Mounted
    /\ mapLoad = "fetch"
    /\ mapLoad' = "text"
    /\ UNCHANGED <<mapCsv, h2Data, bounds, algorithm, opacity,
                   mapVariogramModel, heatmapImageUrl, heatmapCall,
                   effectThrew>>
    /\ UNCHANGED <<krigingVars, idwVars, appVars>>

\* fetch or response.text() rejects: the catch clause logs the error
MapLoadRejects ==
    /\ Mounted
    /\ mapLoad \in {"fetch", "text"}
    /\ mapLoad' = "failed"
    /\ UNCHANGED <<mapCsv, h2Data, bounds, algorithm, opacity,
                   mapVariogramModel, heatmapImageUrl, heatmapCall,
                   effectThrew>>
    /\ UNCHANGED <<krigingVars, idwVars, appVars>>

\* await response.text() resolves: setH2Data, setBounds, and the heatmap
\* effect of the render that follows
MapTextResolves ==
    /\ Mounted
    /\ mapLoad = "text"
    /\ mapLoad' = "done"
    /\ LET parsed == parseCsv(mapCsv)
           lats == Array(LAMBDA a : parsed[a].lat, Len(parsed))
           lons == Array(LAMBDA a : parsed[a].lon, Len(parsed))
           newBounds == <<MathMinOf(lons), MathMinOf(lats),
                          MathMaxOf(lons), MathMaxOf(lats)>>
       IN  /\ h2Data' = parsed
           /\ bounds' = newBounds
           /\ RunHeatmapEffect(parsed, newBounds, algorithm)
    /\ UNCHANGED <<mapCsv, algorithm, opacity, mapVariogramModel>>
    /\ UNCHANGED <<krigingVars, idwVars, appVars>>

NextMap ==
    \/ \E a \in AlgorithmOptions : SetAlgorithm(a)
    \/ \E m \in SelectableModels : SetMapVariogramModel(m)
    \/ \E o \in OpacityArgs : SetOpacity(o)
    \/ MapFetchResolves
    \/ MapLoadRejects
    \/ MapTextResolves

SpecMap == InitMap /\ [][NextMap]_vars

(* C28.  Every regeneration of the heatmap runs generateHeatmap with the   *)
(* algorithm currently selected and, for kriging, with the variogram model *)
(* currently selected.                                                     *)
(* Violated: the effect calls generateHeatmap(h2Data, bounds, algorithm)   *)
(* without the variogram model, whose parameter then takes its default     *)
(* 'exponential'.                                                          *)
C28_HeatmapUsesCurrentSelections ==
    heatmapCall # Null
        => /\ heatmapCall.algorithm = algorithm
           /\ heatmapCall.algorithm = "kriging"
                => /\ heatmapCall.variogramModel = mapVariogramModel
                   /\ heatmapCall.krigingModel.model = mapVariogramModel

\* the algorithm and the data of the call are the current ones
HeatmapUsesCurrentAlgorithm ==
    heatmapCall # Null
        => /\ heatmapCall.algorithm = algorithm
           /\ heatmapCall.h2Data = h2Data
           /\ heatmapCall.bounds = bounds

\* the variogram model of the call is the default whatever is selected
HeatmapModelIsTheDefault ==
    heatmapCall # Null => heatmapCall.variogramModel = "exponential"

----------------------------------------------------------------------------
\* two entries of the sample list at the same location
CoincidentPairs ==
    { p \in (1..Len(data)) \X (1..Len(data)) :
        /\ p[1] < p[2]
        /\ data[p[1]].lon = data[p[2]].lon
        /\ data[p[1]].lat = data[p[2]].lat }

(* C29.  When two distinct entries of the sample list have the same        *)
(* (lon, lat), K has two identical rows and the inversion takes the        *)
(* singular-pivot branch (a warning) at some column, whatever the model    *)
(* and the parameters.                                                     *)
C29_CoincidentSamplesAreSingular ==
    (pc = "ready" /\ CoincidentPairs # {})
        => /\ \A p \in CoincidentPairs : K[p[1]] = K[p[2]]
           /\ warnings > 0

\* the same on finite samples
CoincidentFiniteSamplesAreSingular ==
    (pc = "ready" /\ CoincidentPairs # {} /\ AllFinite(data))
        => /\ \A p \in CoincidentPairs : K[p[1]] = K[p[2]]
           /\ warnings > 0

\* (0,0,1) twice and (3,0,3), gaussian model
C29_Witness ==
    /\ pc = "ready"
    /\ CoincidentPairs = {<<1, 2>>}
    /\ Len(data) = 3
    /\ AllFinite(data)
    /\ model = "gaussian"
    /\ K[1] = K[2]
    /\ warnings > 0

----------------------------------------------------------------------------
\* a point at infinite longitude: its distance to every query is Infinity and
\* its weight 1 / Infinity is 0
IdwFarPoint == Sample(PosInf, Num(0), Num(10))

IdwListsAny ==
    UNION { [1..n -> IdwPool \cup {IdwFarPoint}] : n \in 0..MaxPoints }

\* entry of interpolateIDW, the list drawn from finite and far points
InitIDWAny ==
    /\ idwCall \in [lon : {Zero, Rat(1, 2)}, lat : {Zero},
                    points : IdwListsAny, power : PowerArgs,
                    minDistance : MinDistanceArgs]
    /\ idwPc = "loop"
    /\ idwIndex = 1
    /\ weightSum = Zero
    /\ valueSum = Zero
    /\ returned = Null
    /\ argData = <<>>
    /\ argParams = [model |-> "", nugget |-> Null, sill |-> Null, range |-> Null]
    /\ pc = "start"
    /\ data = <<>>
    /\ model = ""
    /\ nugget = Null
    /\ sill = Null
    /\ range = Null
    /\ K = NullMatrix
    /\ M = NullMatrix
    /\ augmented = <<>>
    /\ i = 0
    /\ warnings = 0
    /\ last = NoCall
    /\ UiIdle

SpecIDWAny == InitIDWAny /\ [][NextIDW]_vars

PointValues ==
    Array(LAMBDA a : idwCall.points[a].h2, Len(idwCall.points))

BetweenMinAndMax ==
    /\ Le(MathMinOf(PointValues), returned)
    /\ Le(returned, MathMaxOf(PointValues))

(* C30.  For every non-empty list, query and power the value returned lies *)
(* between the smallest and the largest h2 of the list, inclusive.         *)
(* Violated: a weight can be 0 (1 / Infinity), the sum of the weights is   *)
(* then 0 for a list of far points, and the division of line 27 returns    *)
(* 0 / 0 = NaN.                                                            *)
C30_BetweenMinAndMax ==
    (idwPc = "done" /\ Len(idwCall.points) > 0) => BetweenMinAndMax

\* with every point at a finite location the property holds
BetweenMinAndMaxOnFinitePoints ==
    (/\ idwPc = "done"
     /\ Len(idwCall.points) > 0
     /\ \A a \in 1..Len(idwCall.points) : IsFiniteSample(idwCall.points[a]))
        => BetweenMinAndMax

\* a far point next to finite ones has weight 0 and the bounds still hold
BetweenMinAndMaxWithAFinitePoint ==
    (/\ idwPc = "done"
     /\ \E a \in 1..Len(idwCall.points) : IsFiniteSample(idwCall.points[a]))
        => BetweenMinAndMax

============================================================================
